---- MODULE Spec2Model ----
(***************************************************************************)
(* The MARC 852 $p repair core of app.py (get_p_values,                    *)
(* get_852_field_template, find_missing_852_fields,                        *)
(* add_missing_852_fields, process_marc_records, get_processing_stats)     *)
(* and the /process handler that drives it.                                *)
(*                                                                         *)
(* A text is a sequence of lexemes.  A lexeme is a record [k, d]: k is the *)
(* kind, d the digits of a maximal run of decimal digits (kind "num") and  *)
(* <<>> for every other kind.  The kinds are the literals the code looks   *)
(* for ("=LDR", "=852", "=653", "$p"), the two kinds of white space it     *)
(* tells apart ("sp", "nl"), and three kinds standing for everything else: *)
(* "=245" (any other field header), "$a" (a '$' followed by anything but   *)
(* 'p') and "txt" (a character that is no '$', no white space, no digit).  *)
(***************************************************************************)
EXTENDS Integers, Sequences, FiniteSets, TLC

VARIABLES content, records, template_852, missing_fields, todo,
          processed_content, stats, pc, pass, ret

vars == <<content, records, template_852, missing_fields, todo,
          processed_content, stats, pc, pass, ret>>

(***************************************************************************)
(* Lexemes and the str methods the code uses.                              *)
(***************************************************************************)
Tok(k) == [k |-> k, d |-> <<>>]
Num(d) == [k |-> "num", d |-> d]
SP == Tok("sp")
NL == Tok("nl")

\* \s of the regular expressions, and the characters str.strip() removes
IsSpace(t) == t.k \in {"sp", "nl"}
\* a lexeme whose first character is '$': what [^$] refuses
IsDollar(t) == t.k \in {"$p", "$a"}

\* int(match.group(1)): the value of a run of decimal digits
RECURSIVE int(_)
int(d) == IF d = <<>> THEN 0
          ELSE 10 * int(SubSeq(d, 1, Len(d) - 1)) + d[Len(d)]

\* the digits f'{missing_p}' writes for a non-negative integer
RECURSIVE str(_)
str(n) == IF n < 10 THEN <<n>> ELSE str(n \div 10) \o <<n % 10>>

RECURSIVE lstrip(_)
lstrip(s) == IF s # <<>> /\ IsSpace(Head(s)) THEN lstrip(Tail(s)) ELSE s

RECURSIVE rstrip(_)
rstrip(s) == IF s # <<>> /\ IsSpace(s[Len(s)])
             THEN rstrip(SubSeq(s, 1, Len(s) - 1)) ELSE s

strip(s) == rstrip(lstrip(s))

startswith(s, k) == s # <<>> /\ s[1].k = k

\* does sep occur in s at position i
SepAt(s, sep, i) ==
    /\ i + Len(sep) - 1 <= Len(s)
    /\ SubSeq(s, i, i + Len(sep) - 1) = sep

\* s.split(sep): the pieces of s between the occurrences of sep, left to right
RECURSIVE SplitFrom(_, _, _, _)
SplitFrom(s, sep, i, cur) ==
    IF i > Len(s) THEN <<cur>>
    ELSE IF SepAt(s, sep, i)
         THEN <<cur>> \o SplitFrom(s, sep, i + Len(sep), <<>>)
         ELSE SplitFrom(s, sep, i + 1, Append(cur, s[i]))

split(s, sep) == SplitFrom(s, sep, 1, <<>>)

\* s.splitlines(): the lines of s; a final newline opens no further line
splitlines(s) ==
    LET parts == split(s, <<NL>>)
    IN  IF parts[Len(parts)] = <<>>
        THEN SubSeq(parts, 1, Len(parts) - 1) ELSE parts

\* sep.join(list)
RECURSIVE join(_, _)
join(sep, list) ==
    IF list = <<>> THEN <<>>
    ELSE IF Len(list) = 1 THEN list[1]
    ELSE list[1] \o sep \o join(sep, Tail(list))

\* sorted(list) of integers
RECURSIVE Insert(_, _)
Insert(x, s) == IF s = <<>> THEN <<x>>
                ELSE IF x < Head(s) THEN <<x>> \o s
                ELSE <<Head(s)>> \o Insert(x, Tail(s))

RECURSIVE sorted(_)
sorted(s) == IF s = <<>> THEN <<>> ELSE Insert(Head(s), sorted(Tail(s)))

\* sorted(set(list))
RECURSIVE SortedSet(_)
SortedSet(S) == IF S = {} THEN <<>>
                ELSE LET m == CHOOSE x \in S : \A y \in S : x <= y
                     IN  <<m>> \o SortedSet(S \ {m})

Range(s) == {s[i] : i \in 1..Len(s)}
max(s) == CHOOSE x \in Range(s) : \A y \in Range(s) : y <= x
min(s) == CHOOSE x \in Range(s) : \A y \in Range(s) : x <= y

\* list(range(a, b))
range(a, b) == [i \in 1..(IF b > a THEN b - a ELSE 0) |-> a + i - 1]

\* ---------------------------------------------------------------------------
\* get_p_values: re.finditer(r'=852\s+[^$]*\$p(\d+)', text), sorted.
\* ---------------------------------------------------------------------------
\* the first position from i on that holds a lexeme starting with '$'
RECURSIVE NextDollar(_, _)
NextDollar(text, i) ==
    IF i > Len(text) THEN i
    ELSE IF IsDollar(text[i]) THEN i ELSE NextDollar(text, i + 1)

\* the position of the digits of the match that starts at i, 0 when the
\* expression does not match there: "=852", white space, then anything
\* without '$' (newlines and field headers included) up to "$p" and digits
MatchP(text, i) ==
    IF text[i].k = "=852" /\ i + 1 <= Len(text) /\ IsSpace(text[i + 1])
    THEN LET k == NextDollar(text, i + 2)
         IN  IF k + 1 <= Len(text) /\ text[k].k = "$p" /\ text[k + 1].k = "num"
             THEN k + 1 ELSE 0
    ELSE 0

RECURSIVE FindIterP(_, _)
FindIterP(text, i) ==
    IF i > Len(text) THEN <<>>
    ELSE LET e == MatchP(text, i)
         IN  IF e = 0 THEN FindIterP(text, i + 1)
             ELSE <<int(text[e].d)>> \o FindIterP(text, e + 1)

get_p_values(text) == sorted(FindIterP(text, 1))

\* ---------------------------------------------------------------------------
\* get_852_field_template: re.search(r'(=852\s+[^\n]*)', record) on the
\* records in order; None is modelled by the empty text, which no match
\* can be.
\* ---------------------------------------------------------------------------
None == <<>>

RECURSIVE SkipSpace(_, _)
SkipSpace(text, i) ==
    IF i <= Len(text) /\ IsSpace(text[i]) THEN SkipSpace(text, i + 1) ELSE i

RECURSIVE NextNewline(_, _)
NextNewline(text, i) ==
    IF i > Len(text) THEN i
    ELSE IF text[i].k = "nl" THEN i ELSE NextNewline(text, i + 1)

RECURSIVE Search852(_, _)
Search852(text, i) ==
    IF i > Len(text) THEN None
    ELSE IF text[i].k = "=852" /\ i + 1 <= Len(text) /\ IsSpace(text[i + 1])
         THEN SubSeq(text, i, NextNewline(text, SkipSpace(text, i + 1)) - 1)
         ELSE Search852(text, i + 1)

RECURSIVE get_852_field_template(_)
get_852_field_template(recs) ==
    IF recs = <<>> THEN None
    ELSE LET m == Search852(Head(recs), 1)
         IN  IF m # None THEN m ELSE get_852_field_template(Tail(recs))

\* ---------------------------------------------------------------------------
\* find_missing_852_fields.  The dict missing_fields is a function from
\* record ordinals (0-based, as in the code) to lists of integers.
\* ---------------------------------------------------------------------------
EmptyDict == <<>>
Keys(dict) == DOMAIN dict
Put(dict, key, value) == (key :> value) @@ dict

\* records[i] of the code: the list is 0-based there
At(recs, i) == recs[i + 1]

\* the extend loops: the markers of every record of recs, in record order
RECURSIVE ExtendAll(_)
ExtendAll(recs) ==
    IF recs = <<>> THEN <<>>
    ELSE get_p_values(Head(recs)) \o ExtendAll(Tail(recs))

\* prev_records_p_values: the markers of records[0 .. i-1]
PrevRecordsPValues(recs, i) == ExtendAll(SubSeq(recs, 1, i))

\* RuleAStep with the running maximum itself as the expected value
RuleAStepNoIncrement(recs, all_p_values, dict, i) ==
    IF get_p_values(At(recs, i)) = <<>>
    THEN IF i = 0
         THEN IF all_p_values # <<>>
              THEN Put(dict, i, <<all_p_values[1]>>) ELSE dict
         ELSE LET prev_records_p_values == PrevRecordsPValues(recs, i)
              IN  IF prev_records_p_values # <<>>
                  THEN Put(dict, i, <<max(prev_records_p_values)>>)
                  ELSE IF all_p_values # <<>>
                       THEN Put(dict, i, <<all_p_values[1]>>) ELSE dict
    ELSE dict

\* one iteration of the first loop
RuleAStep(recs, all_p_values, dict, i) ==
    IF get_p_values(At(recs, i)) = <<>>
    THEN IF i = 0
         THEN IF all_p_values # <<>>
              THEN Put(dict, i, <<all_p_values[1]>>) ELSE dict
         ELSE LET prev_records_p_values == PrevRecordsPValues(recs, i)
              IN  IF prev_records_p_values # <<>>
                  THEN Put(dict, i, <<max(prev_records_p_values) + 1>>)
                  ELSE IF all_p_values # <<>>
                       THEN Put(dict, i, <<all_p_values[1]>>) ELSE dict
    ELSE dict

RECURSIVE RuleALoop(_, _, _, _)
RuleALoop(recs, all_p_values, dict, i) ==
    IF i >= Len(recs) THEN dict
    ELSE RuleALoop(recs, all_p_values,
                   RuleAStep(recs, all_p_values, dict, i), i + 1)

\* RuleBStep with the gap counted from the smallest marker of the record
RuleBStepFromMin(recs, dict, i) ==
    LET current_p_values == get_p_values(At(recs, i))
        next_p_values == get_p_values(At(recs, i + 1))
    IN  IF current_p_values # <<>> /\ next_p_values # <<>>
        THEN LET missing == range(min(current_p_values) + 1, min(next_p_values))
             IN  IF missing # <<>>
                 THEN IF i \in Keys(dict)
                      THEN Put(dict, i, dict[i] \o missing)
                      ELSE Put(dict, i, missing)
                 ELSE dict
        ELSE dict

\* one iteration of the second loop
RuleBStep(recs, dict, i) ==
    LET current_p_values == get_p_values(At(recs, i))
        next_p_values == get_p_values(At(recs, i + 1))
    IN  IF current_p_values # <<>> /\ next_p_values # <<>>
        THEN LET last_p == max(current_p_values)
                 first_next_p == min(next_p_values)
                 missing == range(last_p + 1, first_next_p)
             IN  IF missing # <<>>
                 THEN IF i \in Keys(dict)
                      THEN Put(dict, i, dict[i] \o missing)
                      ELSE Put(dict, i, missing)
                 ELSE dict
        ELSE dict

RECURSIVE RuleBLoop(_, _, _)
RuleBLoop(recs, dict, i) ==
    IF i >= Len(recs) - 1 THEN dict
    ELSE RuleBLoop(recs, RuleBStep(recs, dict, i), i + 1)

\* find_missing_852_fields numbering every record from 1 when the batch has
\* no marker, instead of returning no assignment
FindMissingFromOne(recs) ==
    LET all_p_values == ExtendAll(recs)
    IN  IF all_p_values = <<>> THEN [i \in 0..(Len(recs) - 1) |-> <<1>>]
        ELSE RuleBLoop(recs,
                       RuleALoop(recs, SortedSet(Range(all_p_values)),
                                 EmptyDict, 0),
                       0)

find_missing_852_fields(recs) ==
    LET all_p_values == ExtendAll(recs)
    IN  IF all_p_values = <<>> THEN EmptyDict
        ELSE RuleBLoop(recs,
                       RuleALoop(recs, SortedSet(Range(all_p_values)),
                                 EmptyDict, 0),
                       0)

\* ---------------------------------------------------------------------------
\* add_missing_852_fields
\* ---------------------------------------------------------------------------
\* the scan for insert_index (0-based, as in the code), from line i on
RECURSIVE InsertScan(_, _, _)
InsertScan(lines, i, insert_index) ==
    IF i >= Len(lines) THEN insert_index
    ELSE IF startswith(At(lines, i), "=653")
         THEN InsertScan(lines, i + 1, i + 1)
         ELSE IF startswith(At(lines, i), "=LDR") /\ i > 0
              THEN i
              ELSE InsertScan(lines, i + 1, insert_index)

\* InsertIndex without the scan: always the end of the record
InsertIndexAtEnd(lines) == Len(lines)

\* InsertIndex without the =LDR branch of the scan
InsertIndexNoLeader(lines) ==
    LET at == {m \in 1..Len(lines) : startswith(lines[m], "=653")}
    IN  IF at = {} THEN Len(lines) ELSE max(SortedSet(at))

InsertIndex(lines) == InsertScan(lines, 0, Len(lines))

\* re.sub(r'\$p\d+', f'$p{missing_p}', template_852), from position i on
RECURSIVE SubP(_, _, _)
SubP(template, i, digits) ==
    IF i > Len(template) THEN <<>>
    ELSE IF /\ template[i].k = "$p"
            /\ i + 1 <= Len(template)
            /\ template[i + 1].k = "num"
         THEN <<Tok("$p"), Num(digits)>> \o SubP(template, i + 2, digits)
         ELSE <<template[i]>> \o SubP(template, i + 1, digits)

new_852(template, missing_p) == SubP(template, 1, str(missing_p))

\* the lines the loop over missing_values appends
RECURSIVE NewFields(_, _)
NewFields(missing_values, template) ==
    IF missing_values = <<>> THEN <<>>
    ELSE <<new_852(template, Head(missing_values))>>
         \o NewFields(Tail(missing_values), template)

add_missing_852_fields(record, missing_values, template) ==
    IF missing_values = <<>> \/ template = None THEN record
    ELSE LET lines == splitlines(record)
             insert_index == InsertIndex(lines)
             new_lines == SubSeq(lines, 1, insert_index)
                          \o NewFields(missing_values, template)
                          \o SubSeq(lines, insert_index + 1, Len(lines))
         IN  join(<<NL>>, new_lines)

\* ---------------------------------------------------------------------------
\* process_marc_records, by its steps, and get_processing_stats
\* ---------------------------------------------------------------------------
\* the records of the loop over parts[1:]
RECURSIVE LaterRecords(_)
LaterRecords(parts) ==
    IF parts = <<>> THEN <<>>
    ELSE (IF strip(Head(parts)) # <<>>
          THEN <<<<Tok("=LDR")>> \o Head(parts)>> ELSE <<>>)
         \o LaterRecords(Tail(parts))

SplitRecords(input_text) ==
    LET parts == split(strip(input_text), <<Tok("=LDR")>>)
    IN  (IF strip(parts[1]) # <<>> THEN <<strip(parts[1])>> ELSE <<>>)
        \o LaterRecords(Tail(parts))

\* the number of non-blank pieces of text.split('\n\n=LDR')
RECURSIVE CountNonBlank(_)
CountNonBlank(parts) ==
    IF parts = <<>> THEN 0
    ELSE (IF strip(Head(parts)) # <<>> THEN 1 ELSE 0)
         + CountNonBlank(Tail(parts))

RecordCount(text) == CountNonBlank(split(text, <<NL, NL, Tok("=LDR")>>))

\* len(re.findall(r'=852', text))
Count852(text) == Cardinality({i \in 1..Len(text) : text[i].k = "=852"})

get_processing_stats(original_text, processed_text) ==
    [original_records     |-> RecordCount(original_text),
     processed_records    |-> RecordCount(processed_text),
     original_852_fields  |-> Count852(original_text),
     processed_852_fields |-> Count852(processed_text),
     added_fields         |-> Count852(processed_text) - Count852(original_text)]

NoStats == [original_records |-> 0, processed_records |-> 0,
            original_852_fields |-> 0, processed_852_fields |-> 0,
            added_fields |-> 0]

\* ---------------------------------------------------------------------------
\* Bounds and the texts a request can carry
\* ---------------------------------------------------------------------------
MaxRecords == 3
MaxP == 5
MaxLines == 3
MaxPasses == 2

Txt == Tok("txt")
Leader == <<Tok("=LDR"), SP, Txt>>
Fld852(p) == <<Tok("=852"), SP, Txt, Tok("$p"), Num(str(p))>>
\* the same field with its number written with a leading zero
Fld852z(p) == <<Tok("=852"), SP, Txt, Tok("$p"), Num(<<0>> \o str(p))>>
\* an 852 field without $p
Fld852a == <<Tok("=852"), SP, Txt, Tok("$a"), Txt>>
Fld653 == <<Tok("=653"), SP, Txt, Tok("$a"), Txt>>
Fld245 == <<Tok("=245"), SP, Txt, Tok("$a"), Txt>>

\* a record: its leader line and then the lines of body
Record(body) == join(<<NL>>, <<Leader>> \o body)

SeqsUpTo(S, n) == UNION {[1..m -> S] : m \in 1..n}

\* one 852 line for each marker of the list ps
Fields(ps) == [j \in 1..Len(ps) |-> Fld852(ps[j])]

\* batches of up to MaxRecords records with at most one marker each (0: the
\* record has no 852 field), one record per line block
SeqInputs ==
    {join(<<NL>>, [i \in 1..Len(f) |->
              Record(<<Fld245>> \o (IF f[i] = 0 THEN <<>> ELSE <<Fld852(f[i])>>))])
        : f \in SeqsUpTo(0..MaxP, MaxRecords)}

\* two records with one or two markers each, in any order
MultiInputs ==
    {join(<<NL>>, <<Record(Fields(a)), Record(Fields(b))>>)
        : a \in SeqsUpTo(1..MaxP, 2), b \in SeqsUpTo(1..MaxP, 2)}

\* a record of up to MaxLines lines in any layout, before a record whose
\* marker is MaxP
LayoutLines == {Fld852(1), Fld852(2), Fld852a, Fld653, Fld245}
LayoutInputs ==
    {join(<<NL>>, <<Record(body), Record(<<Fld852(MaxP)>>)>>)
        : body \in SeqsUpTo(LayoutLines, MaxLines)}

\* one or two chunks with every white space around them: a bare leader, a
\* record without 852, with an 852 without $p, with a marker, a chunk
\* without leader
PlainChunks == {<<Tok("=LDR")>>, Record(<<Fld245>>), Record(<<Fld852a>>),
                Record(<<Fld852z(2)>>), Fld245, Fld852(1)}
PlainInputs ==
    {lead \o join(sep, chunks) \o trail
        : lead \in {<<>>, <<NL>>}, trail \in {<<>>, <<NL>>, <<SP, NL>>},
          sep \in {<<>>, <<NL>>, <<NL, NL>>},
          chunks \in SeqsUpTo(PlainChunks, 2)}

Inputs == SeqInputs \cup MultiInputs \cup LayoutInputs \cup PlainInputs

\* ---------------------------------------------------------------------------
\* The /process handler: process_records calls process_marc_records and
\* get_processing_stats on the text of the request
\* ---------------------------------------------------------------------------
Init ==
    /\ content \in Inputs
    /\ records = <<>>
    /\ template_852 = None
    /\ missing_fields = EmptyDict
    /\ todo = <<>>
    /\ processed_content = <<>>
    /\ stats = NoStats
    /\ pc = "split"
    /\ pass = 1
    /\ ret = <<>>

\* the split into records, and the return of the input when there is none
Split ==
    /\ pc = "split"
    /\ records' = SplitRecords(content)
    /\ IF records' = <<>>
       THEN processed_content' = content /\ pc' = "stats"
       ELSE processed_content' = processed_content /\ pc' = "template"
    /\ UNCHANGED <<content, template_852, missing_fields, todo, stats, pass, ret>>

\* GetTemplate returning the re-joined records when there is no template
GetTemplateRejoins ==
    /\ pc = "template"
    /\ template_852' = get_852_field_template(records)
    /\ IF template_852' = None
       THEN processed_content' = join(<<NL, NL>>, records) /\ pc' = "stats"
       ELSE processed_content' = processed_content /\ pc' = "find"
    /\ UNCHANGED <<content, records, missing_fields, todo, stats, pass, ret>>

\* the template, and the return of the input when there is none
GetTemplate ==
    /\ pc = "template"
    /\ template_852' = get_852_field_template(records)
    /\ IF template_852' = None
       THEN processed_content' = content /\ pc' = "stats"
       ELSE processed_content' = processed_content /\ pc' = "find"
    /\ UNCHANGED <<content, records, missing_fields, todo, stats, pass, ret>>

FindMissing ==
    /\ pc = "find"
    /\ missing_fields' = find_missing_852_fields(records)
    /\ todo' = SortedSet(Keys(missing_fields'))
    /\ pc' = "add"
    /\ UNCHANGED <<content, records, template_852, processed_content, stats, pass, ret>>

\* one iteration of the loop over sorted(missing_fields.keys())
AddMissing ==
    /\ pc = "add"
    /\ todo # <<>>
    /\ LET record_index == Head(todo)
       IN  records' = [records EXCEPT ![record_index + 1] =
                          add_missing_852_fields(At(records, record_index),
                                                 missing_fields[record_index],
                                                 template_852)]
    /\ todo' = Tail(todo)
    /\ UNCHANGED <<content, template_852, missing_fields, processed_content,
                   stats, pc, pass, ret>>

Join ==
    /\ pc = "add"
    /\ todo = <<>>
    /\ processed_content' = join(<<NL, NL>>, records)
    /\ pc' = "stats"
    /\ UNCHANGED <<content, records, template_852, missing_fields, todo, stats, pass, ret>>

Stats ==
    /\ pc = "stats"
    /\ stats' = get_processing_stats(content, processed_content)
    /\ pc' = "done"
    /\ UNCHANGED <<content, records, template_852, missing_fields, todo,
                   processed_content, pass, ret>>

\* the processed text is sent back as the text of a further request
Resubmit ==
    /\ pc = "done"
    /\ pass < MaxPasses
    /\ strip(processed_content) # <<>>
    /\ content' = processed_content
    /\ records' = <<>>
    /\ template_852' = None
    /\ missing_fields' = EmptyDict
    /\ todo' = <<>>
    /\ processed_content' = <<>>
    /\ stats' = NoStats
    /\ pc' = "split"
    /\ pass' = pass + 1
    /\ UNCHANGED ret

Next ==
    \/ Split
    \/ GetTemplate
    \/ FindMissing
    \/ AddMissing
    \/ Join
    \/ Stats
    \/ Resubmit

Spec == Init /\ [][Next]_vars

\* ---------------------------------------------------------------------------
\* add_missing_852_fields called on its own: any record, any list of values,
\* a template or None
\* ---------------------------------------------------------------------------
AddLines == {Leader, Fld653, Fld852(1), Fld245, <<>>}
AddRecords == {join(<<NL>>, ls) : ls \in SeqsUpTo(AddLines, MaxLines)} \cup {<<>>}
AddValues == {<<>>, <<2>>, <<3, 2>>}
AddTemplates == {None, Fld852(1), Fld852a}

InitAdd ==
    /\ content = <<>>
    /\ records \in {<<r>> : r \in AddRecords}
    /\ template_852 \in AddTemplates
    /\ missing_fields \in {0 :> v : v \in AddValues}
    /\ todo = <<>>
    /\ processed_content = <<>>
    /\ stats = NoStats
    /\ pc = "call"
    /\ pass = 1
    /\ ret = <<>>

CallAdd ==
    /\ pc = "call"
    /\ ret' = add_missing_852_fields(At(records, 0), missing_fields[0], template_852)
    /\ pc' = "returned"
    /\ UNCHANGED <<content, records, template_852, missing_fields, todo,
                   processed_content, stats, pass>>

NextAdd == CallAdd

SpecAdd == InitAdd /\ [][NextAdd]_vars

\* ---------------------------------------------------------------------------
\* get_p_values called on its own, on one or two lines of every make
\* ---------------------------------------------------------------------------
ExtractLines ==
    {Fld852(1),
     \* $p after one and after two other sub-fields
     <<Tok("=852"), SP, Txt, Tok("$a"), Txt, Tok("$p"), Num(str(2))>>,
     <<Tok("=852"), SP, Txt, Tok("$a"), Txt, Tok("$a"), Txt, Tok("$p"), Num(str(3))>>,
     \* $p before another sub-field
     <<Tok("=852"), SP, Txt, Tok("$p"), Num(str(4)), Tok("$a"), Txt>>,
     \* an 852 field without sub-fields, and one without $p
     <<Tok("=852"), SP, Txt>>,
     Fld852a,
     \* another field with a $p sub-field, and one without
     <<Tok("=245"), SP, Txt, Tok("$p"), Num(str(5))>>,
     Fld245}

ExtractInputs == {join(<<NL>>, ls) : ls \in SeqsUpTo(ExtractLines, 2)}

InitExtract ==
    /\ content \in ExtractInputs
    /\ records = <<>>
    /\ template_852 = None
    /\ missing_fields = EmptyDict
    /\ todo = <<>>
    /\ processed_content = <<>>
    /\ stats = NoStats
    /\ pc = "call"
    /\ pass = 1
    /\ ret = <<>>

CallGetPValues ==
    /\ pc = "call"
    /\ ret' = get_p_values(content)
    /\ pc' = "returned"
    /\ UNCHANGED <<content, records, template_852, missing_fields, todo,
                   processed_content, stats, pass>>

NextExtract == CallGetPValues

SpecExtract == InitExtract /\ [][NextExtract]_vars

\* ---------------------------------------------------------------------------
\* Vocabulary of the properties
\* ---------------------------------------------------------------------------
SetMax(S) == CHOOSE x \in S : \A y \in S : y <= x
SetMin(S) == CHOOSE x \in S : \A y \in S : x <= y

\* the records the request's text splits into, and their number
Original == SplitRecords(content)
NRecords == Len(Original)

\* the sets of markers of the records of recs, record by record, the markers
\* of a record (0-based) and of all the records
MarkerSets(recs) == [i \in 1..Len(recs) |-> Range(get_p_values(recs[i]))]
MarkersOf(M, i) == M[i + 1]
AllMarkers(M) == UNION {M[i] : i \in 1..Len(M)}

Contiguous(S) == \A v \in SetMin(S)..SetMax(S) : v \in S

\* two texts with the same records up to the white space around each record
StripEach(recs) == [i \in 1..Len(recs) |-> strip(recs[i])]
SameRecords(a, b) == StripEach(SplitRecords(a)) = StripEach(SplitRecords(b))

\* the ordinals whose record the loop of process_marc_records has rewritten
Rewritten == Keys(missing_fields) \ Range(todo)

Is852Line(line) == startswith(line, "=852")

\* C1: a second pass over the output of a first pass inserts no further 852
\* field (process(process(x)) = process(x)).
C1_SecondPassAddsNothing ==
    (pc = "done" /\ pass = 2) => Count852(processed_content) = Count852(content)

\* C2: when the input has a marker, every record of the output has a marker
\* and the markers of the output are a run without hole that starts at the
\* smallest marker of the input.
C2_NoDefectRemains ==
    pc = "done" =>
        LET In == MarkerSets(Original)
            Out == MarkerSets(SplitRecords(processed_content))
        IN  AllMarkers(In) # {} =>
                /\ \A i \in 1..Len(Out) : Out[i] # {}
                /\ SetMin(AllMarkers(Out)) = SetMin(AllMarkers(In))
                /\ Contiguous(AllMarkers(Out))

\* an input whose records all have a marker and whose markers are a run
\* without hole
CleanInput(M) ==
    /\ Len(M) > 0
    /\ \A i \in 1..Len(M) : M[i] # {}
    /\ Contiguous(AllMarkers(M))

\* C3: an input whose records all have a marker and whose markers, in
\* whatever order, are a run without hole comes back unchanged up to boundary
\* white space, with no assignment.
C3_CleanRoundTrip ==
    pc = "done" =>
        (CleanInput(MarkerSets(Original)) =>
            /\ missing_fields = EmptyDict
            /\ SameRecords(processed_content, content)
            /\ Count852(processed_content) = Count852(content))

\* C4: an input without any 852 field is returned exactly as it came, white
\* space included, and the statistics report added_fields = 0.
C4_NoTemplateNoOp ==
    (pc = "done" /\ Count852(content) = 0) =>
        /\ processed_content = content
        /\ stats.added_fields = 0

\* C4 witness: a finished request without 852 whose text has two records and
\* white space at both ends, which a re-join of the records would change.
C4_Witness ==
    /\ pc = "done"
    /\ Count852(content) = 0
    /\ NRecords = 2
    /\ IsSpace(content[1])
    /\ IsSpace(content[Len(content)])

\* the input has an 852 field and no marker
NoMarkersInput ==
    Count852(content) > 0 /\ AllMarkers(MarkerSets(Original)) = {}

\* C5 as claimed: with an 852 field and no marker there is no assignment and
\* the output equals the input text.
C5_NoMarkersOutputEqualsInput ==
    (pc = "done" /\ NoMarkersInput) =>
        /\ missing_fields = EmptyDict
        /\ processed_content = content

\* C5 as amended: with an 852 field and no marker there is no assignment, and
\* the output has the records of the input, none altered but for the white
\* space around it, and no 852 field more.
C5_NoMarkersSameRecords ==
    (pc = "done" /\ NoMarkersInput) =>
        /\ missing_fields = EmptyDict
        /\ SameRecords(processed_content, content)
        /\ Count852(processed_content) = Count852(content)
        /\ stats.added_fields = 0

\* C5 witness: a finished request with two records, an 852 field, no marker,
\* whose output differs from its input.
C5_Witness ==
    /\ pc = "done"
    /\ NoMarkersInput
    /\ NRecords = 2
    /\ processed_content # content

\* the value Rule A gives record i: one more than the largest marker of the
\* input records before it, the smallest marker of the input when there is
\* none before it
PriorMarkers(M, i) == UNION {MarkersOf(M, j) : j \in 0..(i - 1)}
ExpectedA(M, i) ==
    IF PriorMarkers(M, i) = {} THEN SetMin(AllMarkers(M))
    ELSE SetMax(PriorMarkers(M, i)) + 1

\* the integers between the largest marker of record i and the smallest
\* marker of the record after it, when both have markers
Between(M, i) ==
    IF i + 1 < Len(M) /\ MarkersOf(M, i) # {} /\ MarkersOf(M, i + 1) # {}
    THEN (SetMax(MarkersOf(M, i)) + 1)..(SetMin(MarkersOf(M, i + 1)) - 1)
    ELSE {}

RuleAHolds(M) ==
    \A i \in 0..(Len(M) - 1) :
        IF MarkersOf(M, i) = {}
        THEN i \in Keys(missing_fields) /\ missing_fields[i] = <<ExpectedA(M, i)>>
        ELSE i \in Keys(missing_fields) =>
                 Range(missing_fields[i]) \subseteq Between(M, i)

\* C6: Rule A.  When the input has a marker, a record without marker is
\* assigned exactly one value, ExpectedA, computed from the input alone, and
\* a record with a marker is assigned nothing but values of Rule B.
C6_RuleA ==
    pc = "add" =>
        LET M == MarkerSets(Original)
        IN  AllMarkers(M) # {} => RuleAHolds(M)

\* C6 witness: two records without marker after a record with one, both
\* given the value after the markers before them.
C6_Witness ==
    /\ pc = "add"
    /\ NRecords = 3
    /\ LET M == MarkerSets(Original)
       IN  M[1] # {} /\ M[2] = {} /\ M[3] = {}
    /\ 1 \in Keys(missing_fields) /\ 2 \in Keys(missing_fields)
    /\ missing_fields[2] = missing_fields[1]

RuleBHolds(M) ==
    \A i \in 0..(Len(M) - 1) :
        IF MarkersOf(M, i) # {}
        THEN IF Between(M, i) = {}
             THEN i \notin Keys(missing_fields)
             ELSE i \in Keys(missing_fields)
                  /\ missing_fields[i] = SortedSet(Between(M, i))
        ELSE i \in Keys(missing_fields) => Len(missing_fields[i]) <= 1

\* C7: Rule B.  A record with a marker is assigned exactly the integers
\* between its largest marker and the smallest marker of the next record, in
\* ascending order, and nothing when there is none or when the next record
\* has no marker; a record without marker is assigned no value of Rule B.
C7_RuleB == pc = "add" => RuleBHolds(MarkerSets(Original))

\* C7 witness: a record with two different markers is assigned the values up
\* to the smaller marker of a next record that has two different markers.
C7_Witness ==
    /\ pc = "add"
    /\ NRecords = 2
    /\ LET M == MarkerSets(Original)
       IN  Cardinality(M[1]) = 2 /\ Cardinality(M[2]) = 2
    /\ 0 \in Keys(missing_fields)
    /\ missing_fields[0] # <<>>

\* the number of lines of a record up to its last =653 line, all its lines
\* when it has none
After653(lines) ==
    LET at == {m \in 1..Len(lines) : startswith(lines[m], "=653")}
    IN  IF at = {} THEN Len(lines) ELSE SetMax(at)

\* new is old with k lines that start with =852 put in after its first j lines
InsertedAt(old, new, j, k) ==
    /\ Len(new) = Len(old) + k
    /\ SubSeq(new, 1, j) = SubSeq(old, 1, j)
    /\ SubSeq(new, j + k + 1, Len(new)) = SubSeq(old, j + 1, Len(old))
    /\ \A m \in (j + 1)..(j + k) : Is852Line(new[m])

\* the rewritten records that had a marker: those whose values are Rule B's
RuleBRewritten == {i \in Rewritten : get_p_values(At(Original, i)) # <<>>}

\* C8 as claimed: in a rewritten record that had a marker every line is
\* kept and the new 852 lines come after all the 852 lines it had.
C8_NewAfterAllExisting ==
    pc = "add" =>
        \A i \in RuleBRewritten :
            LET old == splitlines(At(Original, i))
                new == split(At(records, i), <<NL>>)
            IN  \E j \in 0..Len(old) :
                    /\ InsertedAt(old, new, j, Len(missing_fields[i]))
                    /\ \A m \in (j + 1)..Len(old) : ~Is852Line(old[m])

\* C8 as amended: in a rewritten record that had a marker every line is
\* kept and the new 852 lines come right after the last =653 line, after
\* all the lines when there is no =653 line: after the 852 lines it had
\* before that point and before those it had after it.
C8_NewAfterLast653 ==
    pc = "add" =>
        \A i \in RuleBRewritten :
            LET old == splitlines(At(Original, i))
                new == split(At(records, i), <<NL>>)
            IN  InsertedAt(old, new, After653(old), Len(missing_fields[i]))

\* C8 witness: a rewritten record that had a marker on a line after its
\* =653 line and a line after that one.
C8_Witness ==
    /\ pc = "add"
    /\ \E i \in RuleBRewritten :
           LET old == splitlines(At(Original, i))
           IN  /\ After653(old) < Len(old) - 1
               /\ \E m \in (After653(old) + 1)..Len(old) : Is852Line(old[m])

\* the arguments of the call of add_missing_852_fields
ArgRecord == At(records, 0)
ArgValues == missing_fields[0]
ArgLines == splitlines(ArgRecord)

\* the lines of the record after the first that start with =LDR
InnerLeaders == {m \in 2..Len(ArgLines) : startswith(ArgLines[m], "=LDR")}

\* the text of the record with the new fields after its first j lines
WithFieldsAt(j) ==
    join(<<NL>>, SubSeq(ArgLines, 1, j)
                 \o NewFields(ArgValues, template_852)
                 \o SubSeq(ArgLines, j + 1, Len(ArgLines)))

\* C9 as claimed: with values and a template the new fields are put in
\* together, in the order of the values, right after the last =653 line, at
\* the end when there is none; without values or template the record comes
\* back unchanged.
C9_AfterLast653OrEnd ==
    pc = "returned" =>
        IF ArgValues = <<>> \/ template_852 = None
        THEN ret = ArgRecord
        ELSE ret = WithFieldsAt(After653(ArgLines))

\* C9 as amended: the same when no line after the first starts with =LDR;
\* when one does, the new fields are put in right before the first such line.
C9_AfterLast653OrBeforeLeader ==
    pc = "returned" =>
        IF ArgValues = <<>> \/ template_852 = None
        THEN ret = ArgRecord
        ELSE IF InnerLeaders = {}
             THEN ret = WithFieldsAt(After653(ArgLines))
             ELSE ret = WithFieldsAt(SetMin(InnerLeaders) - 1)

\* C9 witness: a call with two values and a template on a record with two
\* =653 lines and a line after them.
C9_Witness ==
    /\ pc = "returned"
    /\ Len(ArgValues) = 2
    /\ template_852 # None
    /\ InnerLeaders = {}
    /\ Len(ArgLines) = 3
    /\ startswith(ArgLines[1], "=653")
    /\ startswith(ArgLines[2], "=653")
    /\ ~startswith(ArgLines[3], "=653")

\* the numbers of the $p sub-fields of one line
RECURSIVE PNumbers(_)
PNumbers(line) ==
    IF Len(line) < 2 THEN <<>>
    ELSE IF line[1].k = "$p" /\ line[2].k = "num"
         THEN <<int(line[2].d)>> \o PNumbers(Tail(Tail(line)))
         ELSE PNumbers(Tail(line))

\* the numbers of the $p sub-fields of the lines that are 852 fields
RECURSIVE FieldMarkers(_)
FieldMarkers(lines) ==
    IF lines = <<>> THEN <<>>
    ELSE (IF Is852Line(Head(lines)) THEN PNumbers(Head(lines)) ELSE <<>>)
         \o FieldMarkers(Tail(lines))

\* C10: get_p_values returns exactly the numbers of the $p sub-fields of the
\* 852 fields, whatever sub-fields come before $p in the field, and never
\* the $p of a field on a following line.
C10_MarkersOf852Fields ==
    pc = "returned" => ret = sorted(FieldMarkers(splitlines(content)))

====
